---------------------------- MODULE Spec2Model ----------------------------
(***************************************************************************)
(* ECLAT frequent-itemset mining, association rules and recommendations    *)
(* (utils/eclat_algorithm.py) driven by the Streamlit pages of app.py.     *)
(*                                                                         *)
(* Python floats are IEEE-754 binary64.  They are modelled bit-exactly as  *)
(* sign / 53-bit mantissa / exponent, the mantissa held in two 27-bit      *)
(* limbs so that no intermediate value leaves TLC's 32-bit integers.       *)
(* Every `/` and `*` of the source is a correctly rounded (round to        *)
(* nearest, ties to even) operation on these values.  Exponents stay far   *)
(* from the subnormal and overflow ranges for the values the model feeds.  *)
(***************************************************************************)
EXTENDS Integers, Sequences, FiniteSets, TLC

(***************************************************************************)
(* binary64 arithmetic                                                     *)
(***************************************************************************)
Limb == 2^27
HiOne == 2^25

FZero == [s |-> 0, hi |-> 0, lo |-> 0, e |-> 0]

Abs(n) == IF n < 0 THEN 0 - n ELSE n

Sign(n) == IF n < 0 THEN 0 - 1 ELSE IF n = 0 THEN 0 ELSE 1

RECURSIVE BitLen(_)
BitLen(n) == IF n = 0 THEN 0 ELSE 1 + BitLen(n \div 2)

\* float(n) for an int n with |n| < 2^26: exact
FromInt(n) ==
    IF n = 0 THEN FZero
    ELSE LET b == BitLen(Abs(n))
         IN  [s |-> Sign(n), hi |-> Abs(n) * 2^(26 - b), lo |-> 0, e |-> b - 53]

\* two-limb comparison and subtraction of mantissas
MGeq(ahi, alo, bhi, blo) == ahi > bhi \/ (ahi = bhi /\ alo >= blo)

MSub(ahi, alo, bhi, blo) ==
    IF alo >= blo THEN <<ahi - bhi, alo - blo>>
    ELSE <<ahi - bhi - 1, alo + Limb - blo>>

\* q + 1 on a 53-bit mantissa, renormalised when it reaches 2^53
MInc(qhi, qlo, e) ==
    IF qlo + 1 < Limb THEN [hi |-> qhi, lo |-> qlo + 1, e |-> e]
    ELSE IF qhi + 1 < 2 * HiOne THEN [hi |-> qhi + 1, lo |-> 0, e |-> e]
    ELSE [hi |-> HiOne, lo |-> 0, e |-> e + 1]

\* limb * n + carry for 0 <= n < 2^9, as <<carry out, low 27 bits>>
MulLimb(l, n, c) ==
    LET t == ((l % 2^14) * n) + c
        u == ((l \div 2^14) * n) + (t \div 2^14)
    IN  <<u \div 2^13, ((u % 2^13) * 2^14) + (t % 2^14)>>

\* a three-limb value shifted right to 53 bits and rounded to nearest, ties to
\* even; g, st: the guard bit and the sticky bit of what was shifted out so far
RECURSIVE RoundTo53(_, _, _, _, _, _)
RoundTo53(p2, p1, p0, e, g, st) ==
    IF p2 > 0 \/ p1 >= 2 * HiOne
    THEN RoundTo53(p2 \div 2, (p1 \div 2) + ((p2 % 2) * (Limb \div 2)),
                   (p0 \div 2) + ((p1 % 2) * (Limb \div 2)), e + 1, p0 % 2,
                   IF g = 1 THEN 1 ELSE st)
    ELSE IF g = 1 /\ (st = 1 \/ p0 % 2 = 1) THEN MInc(p1, p0, e)
    ELSE [hi |-> p1, lo |-> p0, e |-> e]

\* r * 2^8 for a two-limb r, as three limbs, most significant first
Shift8(rhi, rlo) ==
    <<rhi \div 2^19, ((rhi % 2^19) * 2^8) + (rlo \div 2^19), (rlo % 2^19) * 2^8>>

\* a quotient digit estimated from the leading bits of s and d: the digit of
\* s / d or one less
Estimate(s, dhi) == ((s[1] * 2^23) + (s[2] \div 2^4)) \div ((dhi \div 2^4) + 1)

\* m0 = dlo * est given: d * est as three limbs
MulHigh(dhi, est, m0) == MulLimb(dhi, est, m0[1]) \o <<m0[2]>>

MulMant(dhi, dlo, est) == MulHigh(dhi, est, MulLimb(dlo, est, 0))

\* s - m on three limbs, the difference known to fit two
Sub3(s, m) ==
    IF s[3] >= m[3] THEN <<((s[1] - m[1]) * Limb) + s[2] - m[2], s[3] - m[3]>>
    ELSE <<((s[1] - m[1]) * Limb) + s[2] - m[2] - 1, s[3] - m[3] + Limb>>

\* the estimate corrected: <<remainder hi, remainder lo, digit>>
Correct(t, est, dhi, dlo) ==
    IF MGeq(t[1], t[2], dhi, dlo) THEN MSub(t[1], t[2], dhi, dlo) \o <<est + 1>>
    ELSE t \o <<est>>

DigitWith(s, est, dhi, dlo) == Correct(Sub3(s, MulMant(dhi, dlo, est)), est, dhi, dlo)

DigitFrom(s, dhi, dlo) == DigitWith(s, Estimate(s, dhi), dhi, dlo)

\* one step of long division in radix 2^8 of r / d (r < d, d a normalised
\* mantissa): <<remainder hi, remainder lo, digit>>
NextDigit(rhi, rlo, dhi, dlo) == DigitFrom(Shift8(rhi, rlo), dhi, dlo)

\* a radix 2^8 digit appended to a three-limb quotient
Push(q, digit) ==
    <<(q[1] * 2^8) + (q[2] \div 2^19), ((q[2] % 2^19) * 2^8) + (q[3] \div 2^19),
      ((q[3] % 2^19) * 2^8) + digit>>

\* long division: r = <<remainder hi, remainder lo, last digit>>, q the
\* quotient before the last digit, n digits to go;
\* yields <<q2, q1, q0, 1 if a remainder is left else 0>>
RECURSIVE DivDigits(_, _, _, _, _)
DivDigits(r, dhi, dlo, q, n) ==
    IF n = 0 THEN Push(q, r[3]) \o <<IF r[1] = 0 /\ r[2] = 0 THEN 0 ELSE 1>>
    ELSE DivDigits(NextDigit(r[1], r[2], dhi, dlo), dhi, dlo, Push(q, r[3]), n - 1)

\* the integer part of x / y on mantissas (0 or 1) and what it leaves
FirstDigit(x, y) ==
    IF MGeq(x.hi, x.lo, y.hi, y.lo) THEN MSub(x.hi, x.lo, y.hi, y.lo) \o <<1>>
    ELSE <<x.hi, x.lo, 0>>

RoundQuotient(q, e) == RoundTo53(q[1], q[2], q[3], e, 0, q[4])

WithSign(m, s) == [s |-> s, hi |-> m.hi, lo |-> m.lo, e |-> m.e]

\* x / y for y # 0, correctly rounded
FDiv(x, y) ==
    IF x.s = 0 THEN FZero
    ELSE WithSign(RoundQuotient(DivDigits(FirstDigit(x, y), y.hi, y.lo, <<0, 0, 0>>, 7),
                                x.e - y.e - 56),
                  x.s * y.s)

\* a / b on two ints (true division), b # 0
IntDiv(a, b) == FDiv(FromInt(a), FromInt(b))

RoundProduct(h, low, e) == RoundTo53(h[1], h[2], low, e, 0, 0)

MulRound(x, n, l) == WithSign(RoundProduct(MulLimb(x.hi, n, l[1]), l[2], x.e), x.s)

\* n * x for an int 0 <= n < 2^9 and a float x, correctly rounded
FMulInt(n, x) ==
    IF n = 0 \/ x.s = 0 THEN FZero
    ELSE MulRound(x, n, MulLimb(x.lo, n, 0))

\* x < y
FLess(x, y) ==
    IF x.s # y.s THEN x.s < y.s
    ELSE IF x.s = 0 THEN FALSE
    ELSE LET a == IF x.s = 1 THEN x ELSE y
             b == IF x.s = 1 THEN y ELSE x
         IN  \/ a.e < b.e
             \/ a.e = b.e /\ ~MGeq(a.hi, a.lo, b.hi, b.lo)

FGeq(x, y) == ~FLess(x, y)

FGt(x, y) == FLess(y, x)

(***************************************************************************)
(* Inputs                                                                  *)
(***************************************************************************)
Items == {"A", "B", "C"}

\* longest enumerated transaction list
MaxTx == 1

\* the five-transaction scenario: [{A,B}, {A,B,C}, {A}, {B,C}, {A,B,C}]
Scenario5 == << {"A", "B"}, {"A", "B", "C"}, {"A"}, {"B", "C"}, {"A", "B", "C"} >>

\* 25 transactions, 7 of them holding A: support(A) is 28 % exactly
Threshold25 == [i \in 1..25 |-> IF i <= 7 THEN {"A", "B"} ELSE {"B"}]

RECURSIVE SeqsUpTo(_, _)
SeqsUpTo(S, n) ==
    IF n = 0 THEN {<<>>}
    ELSE LET shorter == SeqsUpTo(S, n - 1)
         IN  shorter \cup {Append(t, x) : t \in shorter, x \in S}

\* a list holding an empty transaction
WithEmpty == << {"A", "B"}, {}, {"A"} >>

\* the transactions the enumerated lists are made of
TxItemsets == {{"A"}, {"A", "B"}, {"B", "C"}, {"A", "B", "C"}}

\* transaction lists: every list of at most MaxTx of these transactions (the
\* empty list among them) and the lists above
TxInputs == SeqsUpTo(TxItemsets, MaxTx) \cup {Scenario5, Threshold25, WithEmpty}

\* a threshold as the caller writes it, p/q (the analysis page passes
\* slider/100); the float the callee receives is ToFloat of it
Ratio(p, q) == [p |-> p, q |-> q]

ToFloat(r) == IntDiv(r.p, r.q)

MinSupportInputs == {Ratio(2, 5), Ratio(1, 2), Ratio(28, 100), Ratio(0, 1), Ratio(3, 2)}

MaxLengthInputs == {0, 1, 2, 3}

MinConfidenceInputs == {Ratio(1, 2), Ratio(7, 10), Ratio(3, 4), Ratio(0, 1)}

\* a rule as generate_association_rules builds it (lines 152-158)
Rule(antecedent, consequent, confidence, lift) ==
    [antecedent |-> antecedent, consequent |-> consequent, support |-> ToFloat(Ratio(2, 5)),
     confidence |-> ToFloat(confidence), lift |-> ToFloat(lift)]

\* the items get_recommendations is tried on: with a fourth item an antecedent
\* can overlap the known items, neither holding the other, and still
\* recommend something
RecItems == Items \cup {"D"}

\* rules handed to get_recommendations: some share a consequent, some a
\* confidence, some a confidence and not the lift
RulePool ==
    { Rule({"A"}, {"B"}, Ratio(3, 4), Ratio(15, 16)),
      Rule({"A", "B"}, {"D"}, Ratio(4, 5), Ratio(6, 5)),
      Rule({"A", "B", "C"}, {"D"}, Ratio(3, 5), Ratio(6, 5)),
      Rule({"A", "C"}, {"B"}, Ratio(9, 10), Ratio(9, 8)),
      Rule({"A"}, {"C"}, Ratio(3, 4), Ratio(5, 4)),
      Rule({"A"}, {"B", "C"}, Ratio(1, 2), Ratio(5, 6)),
      Rule({"B"}, {"C"}, Ratio(3, 4), Ratio(9, 8)),
      Rule({"C"}, {"A", "B"}, Ratio(2, 3), Ratio(10, 9)) }

\* longest rule list handed to get_recommendations
MaxRules == 2

RuleInputs == SeqsUpTo(RulePool, MaxRules)

TopNInputs == {0 - 1, 0, 1, 2}

\* iteration order of a set: CPython walks a set in hash-slot order, fixed for
\* the process by the string hash seed; modelled as a ranking of the items
HashOrders == {p \in [1..Cardinality(Items) -> Items] : \A i \in Items : \E k \in DOMAIN p : p[k] = i}

\* set iteration orders over the items of RecItems
RecHashOrders == {<<"A", "B", "C", "D">>, <<"D", "C", "B", "A">>, <<"B", "D", "A", "C">>}

\* list(S) for a set S of items
SetToSeq(S, perm) == SelectSeq(perm, LAMBDA x : x \in S)

RECURSIVE SlotOf(_, _, _)
SlotOf(s, perm, k) ==
    IF k > Len(perm) THEN 0
    ELSE (IF perm[k] \in s THEN 2^(k - 1) ELSE 0) + SlotOf(s, perm, k + 1)

\* list(C) for a set C of itemsets
RECURSIVE ItemsetsToSeq(_, _)
ItemsetsToSeq(C, perm) ==
    IF C = {} THEN <<>>
    ELSE LET first == CHOOSE s \in C : \A t \in C : SlotOf(s, perm, 1) <= SlotOf(t, perm, 1)
         IN  <<first>> \o ItemsetsToSeq(C \ {first}, perm)

(***************************************************************************)
(* dict: insertion-ordered sequence of [k |-> key, v |-> value]            *)
(***************************************************************************)
HasKey(d, key) == \E i \in 1..Len(d) : d[i].k = key

Get(d, key, default) ==
    IF HasKey(d, key) THEN d[CHOOSE i \in 1..Len(d) : d[i].k = key].v ELSE default

RECURSIVE Keys(_)
Keys(d) == IF d = <<>> THEN <<>> ELSE <<Head(d).k>> \o Keys(Tail(d))

KeySet(d) == {d[i].k : i \in 1..Len(d)}

\* d[key] = value: an existing key keeps its place, a new one goes last
Put(d, key, value) ==
    IF HasKey(d, key)
    THEN LET i == CHOOSE j \in 1..Len(d) : d[j].k = key
         IN  SubSeq(d, 1, i - 1) \o <<[k |-> key, v |-> value]>> \o SubSeq(d, i + 1, Len(d))
    ELSE Append(d, [k |-> key, v |-> value])

\* d.update(other)
RECURSIVE Update(_, _)
Update(d, other) ==
    IF other = <<>> THEN d
    ELSE Update(Put(d, Head(other).k, Head(other).v), Tail(other))

(***************************************************************************)
(* ECLATAlgorithm                                                          *)
(***************************************************************************)
\* variant: tid_lists[item].insert(0, tid)
RECURSIVE AppendTidsInFront(_, _, _)
AppendTidsInFront(tid_lists, items, tid) ==
    IF items = <<>> THEN tid_lists
    ELSE AppendTidsInFront(Put(tid_lists, Head(items),
                               <<tid>> \o Get(tid_lists, Head(items), <<>>)),
                           Tail(items), tid)

\* one pass of `for item in transaction: tid_lists[item].append(tid)`
RECURSIVE AppendTids(_, _, _)
AppendTids(tid_lists, items, tid) ==
    IF items = <<>> THEN tid_lists
    ELSE AppendTids(Put(tid_lists, Head(items), Append(Get(tid_lists, Head(items), <<>>), tid)),
                    Tail(items), tid)

\* variant: the tids number the non-empty transactions only
RECURSIVE TidListsCountingNonEmpty(_, _, _, _)
TidListsCountingNonEmpty(tid_lists, transactions, i, perm) ==
    IF Len(tid_lists) >= 0 /\ i > Len(transactions) THEN tid_lists
    ELSE TidListsCountingNonEmpty(
             AppendTids(tid_lists, SetToSeq(transactions[i], perm),
                        Cardinality({j \in 1..(i - 1) : transactions[j] # {}})),
             transactions, i + 1, perm)

\* the loop `for tid, transaction in enumerate(transactions)` from iteration i on
\* (the guard reads tid_lists, so each iteration's dict is built before the next)
RECURSIVE TidListsFrom(_, _, _, _)
TidListsFrom(tid_lists, transactions, i, perm) ==
    IF Len(tid_lists) >= 0 /\ i > Len(transactions) THEN tid_lists
    ELSE TidListsFrom(AppendTids(tid_lists, SetToSeq(transactions[i], perm), i - 1),
                      transactions, i + 1, perm)

\* _create_tid_lists: item -> list of the (0-based) indices of its transactions
CreateTidLists(transactions, perm) == TidListsFrom(<<>>, transactions, 1, perm)

\* set(list)
ToSet(seq) == {seq[i] : i \in 1..Len(seq)}

\* variant: the inner loop visits j = i + 1 only
CandidateSetOfNeighbours(itemsets_list, k) ==
    {itemsets_list[i] \cup itemsets_list[i + 1] :
        i \in {a \in 1..(Len(itemsets_list) - 1) :
                 Cardinality(itemsets_list[a] \cup itemsets_list[a + 1]) = k}}

\* the candidate join: unions of two frontier itemsets that have k items
CandidateSet(itemsets_list, k) ==
    {itemsets_list[i] \cup itemsets_list[j] :
        <<i, j>> \in {<<a, b>> \in (1..Len(itemsets_list)) \X (1..Len(itemsets_list)) :
                        a < b /\ Cardinality(itemsets_list[a] \cup itemsets_list[b]) = k}}

\* _generate_candidates
GenerateCandidates(frequent_itemsets, k, perm) ==
    ItemsetsToSeq(CandidateSet(frequent_itemsets, k), perm)

\* set(tid_lists[itemset_list[0]]) intersected with every further item's tids
RECURSIVE Intersect(_, _, _)
Intersect(acc, itemset_list, tid_lists) ==
    IF itemset_list = <<>> THEN acc
    ELSE Intersect(acc \cap ToSet(Get(tid_lists, Head(itemset_list), <<>>)),
                   Tail(itemset_list), tid_lists)

\* variant: the tids of the first item only, the loop of lines 60-61 left out
TidIntersectionFirstItem(itemset, tid_lists, perm) ==
    ToSet(Get(tid_lists, SetToSeq(itemset, perm)[1], <<>>))

TidIntersection(itemset, tid_lists, perm) ==
    LET itemset_list == SetToSeq(itemset, perm)
    IN  Intersect(ToSet(Get(tid_lists, itemset_list[1], <<>>)), Tail(itemset_list), tid_lists)

\* line 37 divides by len(transactions) once for every item of tid_lists:
\* ZeroDivisionError when there is an item and no transaction
\* variant: the division hoisted out of the loop over tid_lists
DividesByZeroOutsideLoop(tid_lists, n) == n = 0

DividesByZero(tid_lists, n) == n = 0 /\ tid_lists # <<>>

\* the `>=` of lines 38 and 66: an int count against the float threshold
MeetsMinSupport(count, min_support_count) == FGeq(FromInt(count), min_support_count)

\* lines 35-40: the frequent 1-itemsets, in tid_lists order
RECURSIVE FrequentOne(_, _, _)
FrequentOne(tid_lists, n, min_support_count) ==
    IF tid_lists = <<>> THEN <<>>
    ELSE LET item == Head(tid_lists).k
             tid_list == Head(tid_lists).v
             rest == FrequentOne(Tail(tid_lists), n, min_support_count)
         IN  IF MeetsMinSupport(Len(tid_list), min_support_count)
             THEN <<[k |-> {item}, v |-> IntDiv(Len(tid_list), n)]>> \o rest
             ELSE rest

\* lines 56-67: the frequent itemsets among one level's candidates
RECURSIVE FrequentK(_, _, _, _, _)
FrequentK(next_itemsets, tid_lists, n, min_support_count, perm) ==
    IF next_itemsets = <<>> THEN <<>>
    ELSE LET itemset == Head(next_itemsets)
             tid_intersection == TidIntersection(itemset, tid_lists, perm)
             rest == FrequentK(Tail(next_itemsets), tid_lists, n, min_support_count, perm)
         IN  IF MeetsMinSupport(Cardinality(tid_intersection), min_support_count)
             THEN <<[k |-> itemset, v |-> IntDiv(Cardinality(tid_intersection), n)]>> \o rest
             ELSE rest

\* lines 48-73: the loop `for k in range(2, max_length + 1)`
RECURSIVE MineLevels(_, _, _, _, _, _, _, _)
MineLevels(k, current_itemsets, result, tid_lists, n, min_support_count, max_length, perm) ==
    IF k > max_length THEN result
    ELSE LET next_itemsets == GenerateCandidates(current_itemsets, k, perm)
         IN  IF next_itemsets = <<>> THEN result
             ELSE LET frequent_k_itemsets ==
                          FrequentK(next_itemsets, tid_lists, n, min_support_count, perm)
                  IN  IF frequent_k_itemsets = <<>> THEN result
                      ELSE MineLevels(k + 1, Keys(frequent_k_itemsets),
                                      Update(result, frequent_k_itemsets), tid_lists, n,
                                      min_support_count, max_length, perm)

\* one iteration of the loop of lines 48-73: the level, the frontier it joined,
\* the candidates and the frequent itemsets it found
Level(k, current_itemsets, next_itemsets, frequent_k_itemsets) ==
    [k |-> k, current_itemsets |-> current_itemsets, next_itemsets |-> next_itemsets,
     frequent_k_itemsets |-> frequent_k_itemsets]

RECURSIVE Levels(_, _, _, _, _, _, _)

\* variant: line 73 left out, the next level joins the same frontier again
LevelsAfterSupportSameFrontier(k, current_itemsets, next_itemsets, frequent_k_itemsets, tid_lists, n, min_support_count, max_length, perm) ==
    <<Level(k, current_itemsets, next_itemsets, frequent_k_itemsets)>>
    \o (IF frequent_k_itemsets = <<>> THEN <<>>
        ELSE Levels(k + 1, current_itemsets, tid_lists, n,
                    min_support_count, max_length, perm))

\* lines 69-73: break when the level found nothing, else go on from its itemsets
LevelsAfterSupport(k, current_itemsets, next_itemsets, frequent_k_itemsets, tid_lists, n, min_support_count, max_length, perm) ==
    <<Level(k, current_itemsets, next_itemsets, frequent_k_itemsets)>>
    \o (IF frequent_k_itemsets = <<>> THEN <<>>
        ELSE Levels(k + 1, Keys(frequent_k_itemsets), tid_lists, n,
                    min_support_count, max_length, perm))

\* lines 51-67: break when there is no candidate, else count the candidates
LevelsAfterCandidates(k, current_itemsets, next_itemsets, tid_lists, n, min_support_count, max_length, perm) ==
    IF next_itemsets = <<>> THEN <<Level(k, current_itemsets, next_itemsets, <<>>)>>
    ELSE LevelsAfterSupport(k, current_itemsets, next_itemsets,
                            FrequentK(next_itemsets, tid_lists, n, min_support_count, perm),
                            tid_lists, n, min_support_count, max_length, perm)

\* the iterations of `for k in range(2, max_length + 1)` from level k on
Levels(k, current_itemsets, tid_lists, n, min_support_count, max_length, perm) ==
    IF k > max_length THEN <<>>
    ELSE LevelsAfterCandidates(k, current_itemsets,
                               GenerateCandidates(current_itemsets, k, perm),
                               tid_lists, n, min_support_count, max_length, perm)

\* line 32
MinSupportCount(transactions, min_support) == FMulInt(Len(transactions), min_support)

\* lines 29-40: the frequent 1-itemsets of a call
FrequentOneItemsets(transactions, min_support, perm) ==
    FrequentOne(CreateTidLists(transactions, perm), Len(transactions),
                MinSupportCount(transactions, min_support))

\* variant: line 43 starts the table empty instead of copying the 1-itemsets
MineFromEmptyTable(frequent_1_itemsets, transactions, min_support, max_length, perm) ==
    MineLevels(2, Keys(frequent_1_itemsets), <<>>,
               CreateTidLists(transactions, perm), Len(transactions),
               MinSupportCount(transactions, min_support), max_length, perm)

\* lines 43-75: the table the call returns (and leaves in self.frequent_itemsets)
MineFrom(frequent_1_itemsets, transactions, min_support, max_length, perm) ==
    MineLevels(2, Keys(frequent_1_itemsets), frequent_1_itemsets,
               CreateTidLists(transactions, perm), Len(transactions),
               MinSupportCount(transactions, min_support), max_length, perm)

\* variant: line 43 written as self.frequent_itemsets.update(frequent_1_itemsets),
\* what the field held before the call is kept
TableAfterFindKeeping(self_frequent_itemsets, frequent_1_itemsets, transactions, min_support, max_length, perm) ==
    Update(self_frequent_itemsets,
           MineFrom(frequent_1_itemsets, transactions, min_support, max_length, perm))

\* self.frequent_itemsets after a call on an instance whose field held
\* self_frequent_itemsets: line 43 rebinds the field, what it held is dropped
TableAfterFind(self_frequent_itemsets, frequent_1_itemsets, transactions, min_support, max_length, perm) ==
    MineFrom(frequent_1_itemsets, transactions, min_support, max_length, perm)

\* variant: the table is rebuilt inside the dict the field already refers to
\* (clear() and update()), which is the dict the previous call returned
EarlierTablesWrittenThrough(returned_tables, new_table) ==
    IF returned_tables = <<>> THEN returned_tables
    ELSE [returned_tables EXCEPT ![Len(returned_tables)] = new_table]

\* the dicts returned by the earlier calls, as their callers see them after
\* this call: line 43 binds the field to a new dict (a copy) and line 72
\* updates that one, so no dict returned before is written
EarlierTables(returned_tables, new_table) == returned_tables

\* lines 46-73: the iterations of the level loop of a call
LevelsFrom(frequent_1_itemsets, transactions, min_support, max_length, perm) ==
    Levels(2, Keys(frequent_1_itemsets), CreateTidLists(transactions, perm),
           Len(transactions), MinSupportCount(transactions, min_support), max_length, perm)

FindFrequentItemsets(transactions, min_support, max_length, perm) ==
    MineFrom(FrequentOneItemsets(transactions, min_support, perm), transactions,
             min_support, max_length, perm)

\* line 40: self.item_support[item] = support for every frequent item
RECURSIVE RecordItemSupport(_, _)
RecordItemSupport(support, frequent_1_itemsets) ==
    IF frequent_1_itemsets = <<>> THEN support
    ELSE LET item == CHOOSE i \in Head(frequent_1_itemsets).k : TRUE
         IN  RecordItemSupport(Put(support, item, Head(frequent_1_itemsets).v),
                               Tail(frequent_1_itemsets))

\* variant: itertools.combinations_with_replacement(seq, r)
RECURSIVE CombinationsWithReplacement(_, _)
CombinationsWithReplacement(seq, r) ==
    IF r = 0 THEN << <<>> >>
    ELSE IF seq = <<>> THEN <<>>
    ELSE LET with == CombinationsWithReplacement(seq, r - 1)
         IN  [i \in 1..Len(with) |-> <<Head(seq)>> \o with[i]]
             \o CombinationsWithReplacement(Tail(seq), r)

\* itertools.combinations(seq, r): the r-element subsequences, in index order
RECURSIVE Combinations(_, _)
Combinations(seq, r) ==
    IF r = 0 THEN << <<>> >>
    ELSE IF Len(seq) < r THEN <<>>
    ELSE LET with == Combinations(Tail(seq), r - 1)
         IN  [i \in 1..Len(with) |-> <<Head(seq)>> \o with[i]] \o Combinations(Tail(seq), r)

\* lines 126-128: every antecedent tried for one itemset, in loop order
RECURSIVE Antecedents(_, _)
Antecedents(itemset_list, r) ==
    IF r >= Len(itemset_list) THEN <<>>
    ELSE LET combos == Combinations(itemset_list, r)
         IN  [i \in 1..Len(combos) |-> ToSet(combos[i])] \o Antecedents(itemset_list, r + 1)

\* the number of transactions that contain every item of the consequent
ContainingCount(consequent, transactions) ==
    Cardinality({i \in 1..Len(transactions) : consequent \subseteq transactions[i]})

\* variant: a transaction counts when it holds any item of the consequent
CalculateConsequentSupportAnyItem(consequent, transactions) ==
    IntDiv(Cardinality({i \in 1..Len(transactions) : consequent \cap transactions[i] # {}}),
           Len(transactions))

\* _calculate_consequent_support, for a non-empty transaction list
CalculateConsequentSupport(consequent, transactions) ==
    IntDiv(ContainingCount(consequent, transactions), Len(transactions))

\* variant: the comparison of line 141 turned round (<= for >=)
MeetsMinConfidenceFlipped(confidence, min_confidence) == FGeq(min_confidence, confidence)

\* line 141
MeetsMinConfidence(confidence, min_confidence) == FGeq(confidence, min_confidence)

\* line 139
Confidence(support, antecedent_support) == FDiv(support, antecedent_support)

\* variant: the guard of line 150 turned round
LiftGuardFlipped(confidence, consequent_support) ==
    IF FGt(FZero, consequent_support) THEN FDiv(confidence, consequent_support) ELSE FZero

\* line 150
Lift(confidence, consequent_support) ==
    IF FGt(consequent_support, FZero) THEN FDiv(confidence, consequent_support) ELSE FZero

\* variant: the antecedent is not taken out of the consequent
ConsequentWhole(itemset, antecedent) == itemset

\* line 129
Consequent(itemset, antecedent) == itemset \ antecedent

\* variant: line 134 written as frequent_itemsets[antecedent], which raises for
\* an antecedent that is not a key
SplitRuleRaising(itemset, support, antecedent, table, transactions, min_confidence) ==
    LET consequent == Consequent(itemset, antecedent)
        antecedent_support == Get(table, antecedent, FZero)
        confidence == Confidence(support, antecedent_support)
        tracked == Get(table, consequent, FZero)
        consequent_support ==
            IF tracked.s = 0 THEN CalculateConsequentSupport(consequent, transactions)
            ELSE tracked
    IN  IF consequent = {}
        THEN [error |-> FALSE, rules |-> <<>>]
        ELSE IF ~HasKey(table, antecedent)
        THEN [error |-> TRUE, rules |-> <<>>]
        ELSE IF antecedent_support.s = 0
        THEN [error |-> FALSE, rules |-> <<>>]
        ELSE IF ~MeetsMinConfidence(confidence, min_confidence)
        THEN [error |-> FALSE, rules |-> <<>>]
        ELSE IF tracked.s = 0 /\ Len(transactions) = 0
        THEN [error |-> TRUE, rules |-> <<>>]
        ELSE [error |-> FALSE,
              rules |-> <<[antecedent |-> antecedent, consequent |-> consequent,
                           support |-> support, confidence |-> confidence,
                           lift |-> Lift(confidence, consequent_support)]>>]

\* lines 128-158 for one antecedent: the rules appended (none or one), and
\* whether line 171 divided by len(transactions) = 0
SplitRule(itemset, support, antecedent, table, transactions, min_confidence) ==
    LET consequent == Consequent(itemset, antecedent)
        antecedent_support == Get(table, antecedent, FZero)
        confidence == Confidence(support, antecedent_support)
        tracked == Get(table, consequent, FZero)
        consequent_support ==
            IF tracked.s = 0 THEN CalculateConsequentSupport(consequent, transactions)
            ELSE tracked
    IN  IF consequent = {} \/ antecedent_support.s = 0
        THEN [error |-> FALSE, rules |-> <<>>]
        ELSE IF ~MeetsMinConfidence(confidence, min_confidence)
        THEN [error |-> FALSE, rules |-> <<>>]
        ELSE IF tracked.s = 0 /\ Len(transactions) = 0
        THEN [error |-> TRUE, rules |-> <<>>]
        ELSE [error |-> FALSE,
              rules |-> <<[antecedent |-> antecedent, consequent |-> consequent,
                           support |-> support, confidence |-> confidence,
                           lift |-> Lift(confidence, consequent_support)]>>]

\* the inner loops of lines 126-158 over the antecedents of one itemset
RECURSIVE SplitRules(_, _, _, _, _, _)
SplitRules(antecedents, itemset, support, table, transactions, min_confidence) ==
    IF antecedents = <<>> THEN [error |-> FALSE, rules |-> <<>>]
    ELSE LET one == SplitRule(itemset, support, Head(antecedents), table, transactions,
                              min_confidence)
         IN  IF one.error THEN one
             ELSE LET rest == SplitRules(Tail(antecedents), itemset, support, table,
                                         transactions, min_confidence)
                  IN  [error |-> rest.error, rules |-> one.rules \o rest.rules]

\* lines 119-158: the rule list before it is sorted
RECURSIVE GenerateRules(_, _, _, _, _)
GenerateRules(entries, table, transactions, min_confidence, perm) ==
    IF entries = <<>> THEN [error |-> FALSE, rules |-> <<>>]
    ELSE LET itemset == Head(entries).k
             one == IF Cardinality(itemset) < 2 THEN [error |-> FALSE, rules |-> <<>>]
                    ELSE SplitRules(Antecedents(SetToSeq(itemset, perm), 1), itemset,
                                    Head(entries).v, table, transactions, min_confidence)
         IN  IF one.error THEN one
             ELSE LET rest == GenerateRules(Tail(entries), table, transactions,
                                            min_confidence, perm)
                  IN  [error |-> rest.error, rules |-> one.rules \o rest.rules]

\* line 161: key=lambda x: x['confidence']
ConfidenceLess(x, y) == FLess(x.confidence, y.confidence)

\* variant: an unstable sort, a rule placed before the rules of equal key
InsertRuleBeforeTies(sorted, x) ==
    LET n == Cardinality({i \in 1..Len(sorted) : ConfidenceLess(x, sorted[i])})
    IN  SubSeq(sorted, 1, n) \o <<x>> \o SubSeq(sorted, n + 1, Len(sorted))

\* the place a stable descending sort gives rule x among the sorted ones:
\* after every rule whose key is not smaller
InsertRule(sorted, x) ==
    LET n == Cardinality({i \in 1..Len(sorted) : ~ConfidenceLess(sorted[i], x)})
    IN  SubSeq(sorted, 1, n) \o <<x>> \o SubSeq(sorted, n + 1, Len(sorted))

\* rules.sort(key=..., reverse=True): list.sort is stable, also when reversed
RECURSIVE SortRulesFrom(_, _)
SortRulesFrom(sorted, rest) ==
    IF rest = <<>> THEN sorted
    ELSE SortRulesFrom(InsertRule(sorted, Head(rest)), Tail(rest))

SortRules(generated_rules) == SortRulesFrom(<<>>, generated_rules)

\* variant: a rule applies only when all of its antecedent is known
MatchesForward(antecedent, input_set) == antecedent \subseteq input_set

\* line 193
Matches(antecedent, input_set) ==
    antecedent \subseteq input_set \/ input_set \subseteq antecedent

\* variant: the known items are not taken out of the consequent
RecommendedItemsWhole(consequent, input_set) == consequent

\* line 195
RecommendedItems(consequent, input_set) == consequent \ input_set

\* get_recommendations, lines 188-204: the candidate recommendations, in rule order
RECURSIVE Candidates(_, _, _)
Candidates(association_rules, input_set, perm) ==
    IF association_rules = <<>> THEN <<>>
    ELSE LET rule == Head(association_rules)
             recommended_items == RecommendedItems(rule.consequent, input_set)
             rest == Candidates(Tail(association_rules), input_set, perm)
         IN  IF Matches(rule.antecedent, input_set) /\ recommended_items # {}
             THEN <<[recommended_items |-> SetToSeq(recommended_items, perm),
                     confidence |-> rule.confidence, lift |-> rule.lift,
                     support |-> rule.support,
                     antecedent |-> SetToSeq(rule.antecedent, perm)]>> \o rest
             ELSE rest

\* variant: the later recommendation always replaces the one kept
ReplacesAlways(rec, kept) == TRUE

\* variant: line 210 written with >=, a tie replaces the one kept
ReplacesOnTie(rec, kept) == FGeq(rec.confidence, kept.confidence)

\* line 210: a recommendation replaces the one kept for its item set
Replaces(rec, kept) == FGt(rec.confidence, kept.confidence)

\* lines 207-211: one recommendation per recommended item set
RECURSIVE Unique(_, _)
Unique(unique_recommendations, recommendations) ==
    IF recommendations = <<>> THEN unique_recommendations
    ELSE LET rec == Head(recommendations)
             key == ToSet(rec.recommended_items)
         IN  IF ~HasKey(unique_recommendations, key)
                \/ Replaces(rec, Get(unique_recommendations, key, rec))
             THEN Unique(Put(unique_recommendations, key, rec), Tail(recommendations))
             ELSE Unique(unique_recommendations, Tail(recommendations))

\* variant: key=lambda x: x['confidence'], the lift left out of the key
RankLessByConfidence(x, y) == FLess(x.confidence, y.confidence)

\* line 216: key=lambda x: (x['confidence'], x['lift'])
RankLess(x, y) ==
    \/ FLess(x.confidence, y.confidence)
    \/ x.confidence = y.confidence /\ FLess(x.lift, y.lift)

InsertRecommendation(sorted, x) ==
    LET n == Cardinality({i \in 1..Len(sorted) : ~RankLess(sorted[i], x)})
    IN  SubSeq(sorted, 1, n) \o <<x>> \o SubSeq(sorted, n + 1, Len(sorted))

\* sorted(unique_recommendations.values(), key=..., reverse=True): stable
RECURSIVE SortRecommendations(_, _)
SortRecommendations(sorted, entries) ==
    IF entries = <<>> THEN sorted
    ELSE SortRecommendations(InsertRecommendation(sorted, Head(entries).v), Tail(entries))

\* seq[:n]: the first n elements, or all but the last -n when n is negative
Slice(seq, n) ==
    IF n >= 0 THEN SubSeq(seq, 1, IF n < Len(seq) THEN n ELSE Len(seq))
    ELSE SubSeq(seq, 1, IF Len(seq) + n > 0 THEN Len(seq) + n ELSE 0)

GetRecommendations(items, association_rules, n, perm) ==
    Slice(SortRecommendations(<<>>, Unique(<<>>, Candidates(association_rules, items, perm))), n)

(***************************************************************************)
(* State                                                                   *)
(***************************************************************************)
VARIABLES
    hash_order,         \* set iteration order of this process
    frequent_itemsets,  \* self.frequent_itemsets
    item_support,       \* self.item_support
    op,                 \* the method called last: "none", "find", "rules", "recs"
    outcome,            \* how it ended: "none", "returned" or the exception raised
    transactions,       \* argument of find_frequent_itemsets / generate_association_rules
    min_support,        \* argument, as the caller wrote it
    max_length,         \* argument
    table,              \* frequent_itemsets argument of generate_association_rules
    min_confidence,     \* argument, as the caller wrote it
    generated,          \* the local list `rules` before line 161 sorts it
    rules,              \* value returned by generate_association_rules
    input_items,        \* arguments of get_recommendations
    association_rules,
    top_n,
    candidates,         \* the local list `recommendations` after line 204
    unique,             \* the local dict unique_recommendations after line 211
    recommendations,    \* value returned by get_recommendations
    calls,              \* number of find_frequent_itemsets calls made on the instance
    returned,           \* the dicts those calls returned, as their callers see them now
    tid_input,          \* argument of the last _create_tid_lists call
    tid_lists,          \* value it returned
    frontier,           \* argument frequent_itemsets of the last _generate_candidates call
    level,              \* its argument k
    new_candidates,     \* value it returned
    levels,             \* the iterations of the level loop of the last run
    session_processed_data,     \* st.session_state.processed_data: <<>> for None, else <<rows>>
    session_eclat_results,      \* st.session_state.eclat_results: <<>> for None, else <<table>>
    session_association_rules,  \* st.session_state.association_rules: <<>> for None, else <<rules>>
    analysed,           \* what the last analysis run that stored its results ran on
    runs,               \* analysis runs started
    shown               \* the tables and rules the results page listed last

vars == <<hash_order, frequent_itemsets, item_support, op, outcome, transactions,
          min_support, max_length, table, min_confidence, generated, rules,
          input_items, association_rules, top_n, candidates, unique, recommendations,
          calls, returned, tid_input, tid_lists, frontier, level, new_candidates, levels,
          session_processed_data, session_eclat_results, session_association_rules,
          analysed, runs, shown>>

instanceVars == <<frequent_itemsets, item_support>>
findVars == <<transactions, min_support, max_length, levels>>
rulesVars == <<table, min_confidence, generated, rules>>
recsVars == <<input_items, association_rules, top_n, candidates, unique, recommendations>>
callVars == <<calls, returned>>
helperVars == <<tid_input, tid_lists, frontier, level, new_candidates>>
sessionVars == <<session_processed_data, session_eclat_results, session_association_rules,
                 analysed, runs, shown>>

\* a fresh ECLATAlgorithm (lines 12-14), nothing called yet; the argument
\* variables hold the defaults of the signatures
Fresh ==
    /\ frequent_itemsets = <<>>
    /\ item_support = <<>>
    /\ op = "none"
    /\ outcome = "none"
    /\ transactions = <<>>
    /\ min_support = Ratio(5, 100)
    /\ max_length = 5
    /\ table = <<>>
    /\ min_confidence = Ratio(1, 2)
    /\ generated = <<>>
    /\ rules = <<>>
    /\ input_items = {}
    /\ association_rules = <<>>
    /\ top_n = 5
    /\ candidates = <<>>
    /\ unique = <<>>
    /\ recommendations = <<>>
    /\ calls = 0
    /\ returned = <<>>
    /\ tid_input = <<>>
    /\ tid_lists = <<>>
    /\ frontier = <<>>
    /\ level = 0
    /\ new_candidates = <<>>
    /\ levels = <<>>
    /\ session_processed_data = <<>>
    /\ session_eclat_results = <<>>
    /\ session_association_rules = <<>>
    /\ analysed = <<>>
    /\ runs = 0
    /\ shown = <<>>

Init == hash_order \in HashOrders /\ Fresh

\* the same for a process whose sets hold the items of RecItems
InitRec == hash_order \in RecHashOrders /\ Fresh

\* whether find_frequent_itemsets(tx, ...) raises at line 37, in the first
\* iteration of the loop over tid_lists, before anything is stored
FindRaises(tx, perm) == DividesByZero(CreateTidLists(tx, perm), Len(tx))

\* find_frequent_itemsets(tx, ms, ml) on the instance as it is
FindStep(tx, ms, ml) ==
    /\ IF FindRaises(tx, hash_order)
       THEN /\ outcome' = "ZeroDivisionError"
            /\ levels' = <<>>
            /\ UNCHANGED <<instanceVars, returned>>
       ELSE /\ outcome' = "returned"
            /\ LET frequent_1_itemsets == FrequentOneItemsets(tx, ToFloat(ms), hash_order)
               IN  /\ frequent_itemsets' =
                          TableAfterFind(frequent_itemsets, frequent_1_itemsets, tx,
                                         ToFloat(ms), ml, hash_order)
                   /\ item_support' = RecordItemSupport(item_support, frequent_1_itemsets)
                   /\ levels' = LevelsFrom(frequent_1_itemsets, tx, ToFloat(ms), ml, hash_order)
            /\ returned' = Append(EarlierTables(returned, frequent_itemsets'),
                                  frequent_itemsets')
    /\ calls' = calls + 1
    /\ op' = "find"
    /\ transactions' = tx
    /\ min_support' = ms
    /\ max_length' = ml
    /\ UNCHANGED <<hash_order, rulesVars, recsVars, helperVars, sessionVars>>

\* find_frequent_itemsets(tx, ms, ml) on the fresh instance
FindCall(tx, ms, ml) == op = "none" /\ FindStep(tx, ms, ml)

Find == \E tx \in TxInputs, ms \in MinSupportInputs, ml \in MaxLengthInputs : FindCall(tx, ms, ml)

\* generate_association_rules(tb, tx, mc); the method reads no field of the
\* instance
GenerateStep(tb, tx, mc) ==
    /\ LET r == GenerateRules(tb, tb, tx, ToFloat(mc), hash_order)
       IN  /\ outcome' = IF r.error THEN "ZeroDivisionError" ELSE "returned"
           /\ generated' = r.rules
           /\ rules' = IF r.error THEN <<>> ELSE SortRules(r.rules)
    /\ op' = "rules"
    /\ table' = tb
    /\ transactions' = tx
    /\ min_confidence' = mc
    /\ UNCHANGED <<hash_order, instanceVars, min_support, max_length, levels, recsVars,
                   callVars, helperVars, sessionVars>>

\* generate_association_rules(frequent_itemsets, transactions, mc) on the
\* table and the transactions of the preceding find_frequent_itemsets call
RulesStep(mc) == GenerateStep(frequent_itemsets, transactions, mc)

RulesCall(mc) == op = "find" /\ outcome = "returned" /\ RulesStep(mc)

Rules == \E mc \in MinConfidenceInputs : RulesCall(mc)

Next == Find \/ Rules

Spec == Init /\ [][Next]_vars

\* get_recommendations(items, rs, n); the method reads no field of the instance
RecsStep(items, rs, n) ==
    /\ candidates' = Candidates(rs, items, hash_order)
    /\ unique' = Unique(<<>>, Candidates(rs, items, hash_order))
    /\ recommendations' = GetRecommendations(items, rs, n, hash_order)
    /\ op' = "recs"
    /\ outcome' = "returned"
    /\ input_items' = items
    /\ association_rules' = rs
    /\ top_n' = n
    /\ UNCHANGED <<hash_order, instanceVars, findVars, rulesVars, callVars, helperVars,
                   sessionVars>>

\* get_recommendations(items, rs, n) on the fresh instance
RecsCall(items, rs, n) == op = "none" /\ RecsStep(items, rs, n)

Recs ==
    /\ op = "none"
    /\ \E items \in SUBSET RecItems, rs \in RuleInputs, n \in TopNInputs : RecsCall(items, rs, n)

NextRec == Recs

SpecRec == InitRec /\ [][NextRec]_vars

\* ---- the instance the application shares (app.py line 35) ----

\* calls of find_frequent_itemsets followed on one instance
MaxCalls == 2

\* what the pages pass to the shared instance: transaction lists, the support
\* threshold, max_length, the confidence threshold, the items of the request
\* and top_n = 10
InstanceTxInputs == {Scenario5, << {"A"} >>, << {"B", "C"} >>}
InstanceMinSupportInputs == {Ratio(2, 5)}
InstanceMaxLengthInputs == {1, 3}
InstanceMinConfidenceInputs == {Ratio(1, 2)}
InstanceItemInputs == {{"A"}}
InstanceTopN == 10
InstanceHashOrders == {<<"A", "B", "C">>, <<"C", "A", "B">>}

InitInstance == hash_order \in InstanceHashOrders /\ Fresh

\* find_frequent_itemsets on the shared instance, whatever was called before
FindAgain ==
    /\ calls < MaxCalls
    /\ \E tx \in InstanceTxInputs, ms \in InstanceMinSupportInputs,
          ml \in InstanceMaxLengthInputs : FindStep(tx, ms, ml)

\* generate_association_rules on the table and transactions of the last run
RulesAfterFind ==
    /\ op = "find"
    /\ outcome = "returned"
    /\ \E mc \in InstanceMinConfidenceInputs : RulesStep(mc)

\* get_recommendations on the rules the analysis stored
RecsAfterRules ==
    /\ op = "rules"
    /\ outcome = "returned"
    /\ \E items \in InstanceItemInputs : RecsStep(items, rules, InstanceTopN)

NextInstance == FindAgain \/ RulesAfterFind \/ RecsAfterRules

SpecInstance == InitInstance /\ [][NextInstance]_vars

\* ---- _create_tid_lists on its own ----

\* longest transaction list passed
MaxTidTx == 3

\* every list of at most MaxTidTx transactions over the items, the empty
\* transaction and the empty list among them
TidTxInputs == SeqsUpTo(SUBSET Items, MaxTidTx)

CreateTidListsCall(tx) ==
    /\ tid_input' = tx
    /\ tid_lists' = CreateTidLists(tx, hash_order)
    /\ op' = "tids"
    /\ outcome' = "returned"
    /\ UNCHANGED <<hash_order, instanceVars, findVars, rulesVars, recsVars, callVars,
                   frontier, level, new_candidates, sessionVars>>

TidLists ==
    /\ op = "none"
    /\ \E tx \in TidTxInputs : CreateTidListsCall(tx)

NextTid == TidLists

SpecTid == InitInstance /\ [][NextTid]_vars

\* ---- _generate_candidates on its own ----

\* longest frontier passed
MaxFrontier == 4

\* the sequences of at most n different elements of S
DistinctSeqsUpTo(S, n) == {q \in SeqsUpTo(S, n) : Cardinality(ToSet(q)) = Len(q)}

\* the levels k and, for each, the frontiers: the keys of a dict of
\* (k-1)-itemsets, in any order
LevelInputs == 2..4
FrontierInputs(k) ==
    DistinctSeqsUpTo({x \in SUBSET RecItems : Cardinality(x) = k - 1}, MaxFrontier)

GenerateCandidatesCall(f, k) ==
    /\ frontier' = f
    /\ level' = k
    /\ new_candidates' = GenerateCandidates(f, k, hash_order)
    /\ op' = "candidates"
    /\ outcome' = "returned"
    /\ UNCHANGED <<hash_order, instanceVars, findVars, rulesVars, recsVars, callVars,
                   tid_input, tid_lists, sessionVars>>

NewCandidates ==
    /\ op = "none"
    /\ \E k \in LevelInputs : \E f \in FrontierInputs(k) : GenerateCandidatesCall(f, k)

NextCand == NewCandidates

SpecCand == InitRec /\ [][NextCand]_vars

\* ---- generate_association_rules on a table of the caller's ----

\* the entries the tables are made of, in dict order: supports 1/2 and 1/4,
\* and a stored support of 0
Entry(itemset, support) == [k |-> itemset, v |-> ToFloat(support)]
EntryPool ==
    << Entry({"A"}, Ratio(1, 2)), Entry({"B"}, Ratio(1, 2)), Entry({"B"}, Ratio(0, 1)),
       Entry({"A", "B"}, Ratio(1, 2)), Entry({"B", "C"}, Ratio(1, 4)),
       Entry({"A", "B", "C"}, Ratio(1, 4)) >>

\* the entries of the pool at the positions of P, in pool order
RECURSIVE EntriesAt(_, _)
EntriesAt(P, i) ==
    IF i > Len(EntryPool) THEN <<>>
    ELSE (IF i \in P THEN <<EntryPool[i]>> ELSE <<>>) \o EntriesAt(P, i + 1)

\* the tables: every selection of pool entries with no key twice
TableInputs ==
    {d \in {EntriesAt(P, 1) : P \in SUBSET (1..Len(EntryPool))} :
        Cardinality(KeySet(d)) = Len(d)}

\* the transaction lists passed with them, the empty list and a list with an
\* empty transaction among them
GenerateTxInputs ==
    { <<>>, << {"A", "B"}, {"B", "C"} >>, << {"A"}, {}, {"A", "B", "C"}, {"B"} >>,
      << {"A"}, {"A"} >> }
GenerateMinConfidenceInputs == {Ratio(1, 2), Ratio(3, 4)}

Generate ==
    /\ op = "none"
    /\ \E tb \in TableInputs, tx \in GenerateTxInputs, mc \in GenerateMinConfidenceInputs :
           GenerateStep(tb, tx, mc)

NextGen == Generate

SpecGen == InitInstance /\ [][NextGen]_vars

\* ---- runs over transaction lists that hold empty transactions ----

\* longest such list
MaxEmptyTx == 3

\* the lists of at most MaxEmptyTx transactions with an empty one among them
EmptyTxInputs ==
    {tx \in SeqsUpTo({{}, {"A"}, {"A", "B"}, {"B", "C"}}, MaxEmptyTx) :
        \E i \in 1..Len(tx) : tx[i] = {}}
EmptyTxMinSupportInputs == {Ratio(0, 1), Ratio(1, 2)}
EmptyTxMaxLengthInputs == {3}
EmptyTxMinConfidenceInputs == {Ratio(0, 1), Ratio(1, 2)}

FindWithEmpty ==
    /\ op = "none"
    /\ \E tx \in EmptyTxInputs, ms \in EmptyTxMinSupportInputs,
          ml \in EmptyTxMaxLengthInputs : FindStep(tx, ms, ml)

RulesWithEmpty ==
    /\ op = "find"
    /\ outcome = "returned"
    /\ \E mc \in EmptyTxMinConfidenceInputs : RulesStep(mc)

NextEmptyTx == FindWithEmpty \/ RulesWithEmpty

SpecEmptyTx == InitInstance /\ [][NextEmptyTx]_vars

(***************************************************************************)
(* The application session (app.py): a DataFrame is a set of rows          *)
(* <<transaction_id, item>>; a session value is <<>> for None, else <<v>>  *)
(***************************************************************************)

\* validate_and_process, lines 55-65 of data_processing.py: the least numbers
\* of rows, of transactions and of items
MinRows == 10
MinTransactions == 5
MinItems == 3

TransactionIds(df) == {r[1] : r \in df}

\* validate_and_process for a frame of two clean columns: None when the frame
\* is too small, else the frame (dropna, strip, drop_duplicates and the
\* cleaning of the names leave such rows as they are)
ValidateAndProcess(df) ==
    IF Cardinality(df) < MinRows THEN <<>>
    ELSE IF Cardinality(TransactionIds(df)) < MinTransactions THEN <<>>
    ELSE IF Cardinality({r[2] : r \in df}) < MinItems THEN <<>>
    ELSE <<df>>

\* the n-th transaction id in the order of groupby
NthId(df, n) ==
    CHOOSE i \in TransactionIds(df) : Cardinality({j \in TransactionIds(df) : j < i}) = n - 1

\* the loop of lines 108-109: the item set of each transaction id is
\* appended, in the order of the ids
RECURSIVE GroupsFrom(_, _, _)
GroupsFrom(df, n, transaction_list) ==
    IF n > Cardinality(TransactionIds(df)) THEN transaction_list
    ELSE GroupsFrom(df, n + 1,
                    Append(transaction_list,
                           {r[2] : r \in {x \in df : x[1] = NthId(df, n)}}))

\* create_transaction_matrix: [] for None, else the groups of the frame
CreateTransactionMatrix(processed) ==
    IF processed = <<>> THEN <<>> ELSE GroupsFrom(processed[1], 1, <<>>)

\* the rows of a frame that holds the transactions tx under the ids 1, 2, ...
RowsOf(tx) == {<<i, x>> : i \in 1..Len(tx), x \in Items} \cap
              {r \in (1..Len(tx)) \X Items : r[2] \in tx[r[1]]}

\* the frames uploaded: the five-transaction scenario, another frame of five
\* transactions, and one too small to pass the validation
OtherFive == << {"A", "B"}, {"A", "B"}, {"A", "B", "C"}, {"B", "C"}, {"A", "C"} >>
DataInputs == {RowsOf(Scenario5), RowsOf(OtherFive), RowsOf(<< {"A"}, {"B"} >>)}

\* the sliders of the analysis page, as the fractions slider / 100
\* (lines 454 and 465)
PageMinSupportInputs == {Ratio(40, 100)}
PageMaxLengthInputs == {3}
PageMinConfidenceInputs == {Ratio(50, 100), Ratio(75, 100)}

\* where the try block of lines 440-488 is left: "none" (it runs to its end),
\* or an exception raised inside find_frequent_itemsets or inside
\* generate_association_rules, caught at line 490
Faults == {"none", "find", "rules"}

\* analysis runs in a session
MaxRuns == 2

\* variant: line 472 placed before the call of generate_association_rules
StoredResultsBeforeRules(old, itemsets, fault) ==
    IF fault = "find" THEN old ELSE <<itemsets>>

\* st.session_state.eclat_results after a run: line 472 is reached only when
\* both calls have returned
StoredResults(old, itemsets, fault) ==
    IF fault = "none" THEN <<itemsets>> ELSE old

\* st.session_state.association_rules after a run: line 473
StoredRules(old, sorted_rules, fault) ==
    IF fault = "none" THEN <<sorted_rules>> ELSE old

\* variant: saving a data set discards the results of the data set before it
ResultsAfterSaveCleared(stored) == <<>>

\* a session value of the results after "Validasi dan Simpan Data": lines
\* 381-385 assign processed_data only
ResultsAfterSave(stored) == stored

\* the button "Validasi dan Simpan Data" for the uploaded frame df
SaveData(df) ==
    /\ session_processed_data' =
           IF ValidateAndProcess(df) # <<>> THEN ValidateAndProcess(df)
           ELSE session_processed_data
    /\ session_eclat_results' = ResultsAfterSave(session_eclat_results)
    /\ session_association_rules' = ResultsAfterSave(session_association_rules)
    /\ op' = "save"
    /\ outcome' = IF ValidateAndProcess(df) # <<>> THEN "returned" ELSE "rejected"
    /\ UNCHANGED <<hash_order, instanceVars, findVars, rulesVars, recsVars, callVars,
                   helperVars, analysed, runs, shown>>

\* the end of a run of the analysis button: the calls made on the shared
\* instance up to the fault, and lines 472-473
RunStore(tx, support_1, tb, lv, r, ms, ml, mc, fault) ==
    /\ IF fault = "find"
       THEN UNCHANGED <<instanceVars, levels, calls, returned>>
       ELSE /\ frequent_itemsets' = tb
            /\ item_support' = support_1
            /\ levels' = lv
            /\ calls' = calls + 1
            /\ returned' = Append(EarlierTables(returned, tb), tb)
    /\ IF fault = "none"
       THEN /\ generated' = r.rules
            /\ rules' = SortRules(r.rules)
            /\ table' = tb
            /\ min_confidence' = mc
            /\ analysed' = <<[data |-> session_processed_data[1], min_support |-> ms,
                              max_length |-> ml, min_confidence |-> mc]>>
       ELSE UNCHANGED <<rulesVars, analysed>>
    /\ session_eclat_results' = StoredResults(session_eclat_results, tb, fault)
    /\ session_association_rules' =
           StoredRules(session_association_rules, SortRules(r.rules), fault)
    /\ outcome' = IF fault = "none" THEN "returned" ELSE "raised"
    /\ op' = "analysis"
    /\ runs' = runs + 1
    /\ transactions' = tx
    /\ min_support' = ms
    /\ max_length' = ml
    /\ UNCHANGED <<hash_order, recsVars, helperVars, session_processed_data, shown>>

\* the call of generate_association_rules (lines 462-466) on the table found
RunRules(tx, support_1, tb, lv, ms, ml, mc) ==
    \E fault \in Faults :
        RunStore(tx, support_1, tb, lv, GenerateRules(tb, tb, tx, ToFloat(mc), hash_order),
                 ms, ml, mc, fault)

\* the call of find_frequent_itemsets (lines 452-456) on the shared instance
RunFind(tx, frequent_1_itemsets, ms, ml) ==
    \E mc \in PageMinConfidenceInputs :
        RunRules(tx, RecordItemSupport(item_support, frequent_1_itemsets),
                 TableAfterFind(frequent_itemsets, frequent_1_itemsets, tx, ToFloat(ms), ml,
                                hash_order),
                 LevelsFrom(frequent_1_itemsets, tx, ToFloat(ms), ml, hash_order),
                 ms, ml, mc)

RunOn(tx, ms, ml) == RunFind(tx, FrequentOneItemsets(tx, ToFloat(ms), hash_order), ms, ml)

\* the button "Mulai Analisis ECLAT" (lines 404-406 and 438-491)
AnalysisRun ==
    /\ session_processed_data # <<>>
    /\ runs < MaxRuns
    /\ \E ms \in PageMinSupportInputs, ml \in PageMaxLengthInputs :
           RunOn(CreateTransactionMatrix(session_processed_data), ms, ml)

\* the button of the input page, for any uploaded frame
Save == \E df \in DataInputs : SaveData(df)

\* view_results_page, lines 497-533: the table and the rules it lists
ViewResults ==
    /\ session_eclat_results # <<>>
    /\ session_association_rules # <<>>
    /\ shown' = <<session_eclat_results[1], session_association_rules[1]>>
    /\ op' = "view"
    /\ outcome' = "returned"
    /\ UNCHANGED <<hash_order, instanceVars, findVars, rulesVars, recsVars, callVars,
                   helperVars, session_processed_data, session_eclat_results,
                   session_association_rules, analysed, runs>>

\* the items the recommendations page offers: those of processed_data (line 578)
AllItems == {r[2] : r \in session_processed_data[1]}

\* the selections made in the multiselect of line 580
SelectionInputs == {{"A"}}

\* recommendations_page, lines 570-591, for a non-empty selection
RecommendationsPage ==
    /\ session_association_rules # <<>>
    /\ session_processed_data # <<>>
    /\ \E selected_items \in {sel \in SelectionInputs : sel \subseteq AllItems} :
           RecsStep(selected_items, session_association_rules[1], InstanceTopN)

NextApp == Save \/ AnalysisRun \/ ViewResults \/ RecommendationsPage

SpecApp == InitInstance /\ [][NextApp]_vars

(***************************************************************************)
(* Properties of find_frequent_itemsets                                    *)
(***************************************************************************)
FOne == FromInt(1)

\* find_frequent_itemsets has returned; the table and its arguments are held
FindReturned == op \in {"find", "rules"} /\ outcome # "ZeroDivisionError"

\* the thresholds as the caller wrote them lie in (0, 1]
InUnitInterval(r) == 0 < r.p /\ r.p <= r.q

\* the itemsets a threshold of min_support admits, counting exactly:
\* count >= N * p/q  iff  count * q >= N * p
ExpectedItemsets(tx, ms, ml) ==
    {S \in SUBSET Items \ {{}} :
        Cardinality(S) <= ml /\ ContainingCount(S, tx) * ms.q >= Len(tx) * ms.p}

\* C1: for N >= 1, min_support in (0,1] and max_length >= 1 the returned table
\* holds exactly the itemsets of size 1..max_length whose support count is
\* >= N * min_support, those whose count equals N * min_support included.
C1_ExactTable ==
    (FindReturned /\ op = "find" /\ Len(transactions) >= 1
        /\ InUnitInterval(min_support) /\ max_length >= 1)
    => KeySet(frequent_itemsets) = ExpectedItemsets(transactions, min_support, max_length)

\* C2: every stored support lies in [0,1] and equals (number of transactions
\* that are supersets of the itemset) / N, counted by a direct scan.
C2_SupportIsDirectCount ==
    FindReturned =>
        \A i \in 1..Len(frequent_itemsets) :
            /\ frequent_itemsets[i].v =
                   IntDiv(ContainingCount(frequent_itemsets[i].k, transactions),
                          Len(transactions))
            /\ FGeq(frequent_itemsets[i].v, FZero)
            /\ FGeq(FOne, frequent_itemsets[i].v)

\* a table holding a pair and a triple whose supports differ from those of
\* their items
C2_Witness ==
    /\ op = "find"
    /\ transactions = Scenario5
    /\ \E i, j \in 1..Len(frequent_itemsets) :
           /\ frequent_itemsets[i].k = {"A", "B", "C"}
           /\ frequent_itemsets[j].k = {"A"}
           /\ FLess(frequent_itemsets[i].v, frequent_itemsets[j].v)

\* C3: every non-empty proper subset T of a tracked itemset S is tracked with
\* support(T) >= support(S); so every antecedent generate_association_rules
\* looks up for an itemset of the miner's table is a key of it, with a
\* non-zero support when min_support > 0.
C3_AntiMonotone ==
    FindReturned =>
        /\ \A S \in KeySet(frequent_itemsets) : \A T \in (SUBSET S) \ {{}, S} :
               /\ HasKey(frequent_itemsets, T)
               /\ FGeq(Get(frequent_itemsets, T, FZero), Get(frequent_itemsets, S, FZero))
        /\ \A S \in KeySet(frequent_itemsets) :
               \A a \in ToSet(Antecedents(SetToSeq(S, hash_order), 1)) :
                   /\ HasKey(frequent_itemsets, a)
                   /\ min_support.p > 0 => Get(frequent_itemsets, a, FZero).s # 0

\* rules were generated from a table holding a triple, whose antecedents are
\* items and pairs
C3_Witness ==
    /\ op = "rules"
    /\ HasKey(table, {"A", "B", "C"})
    /\ FLess(Get(table, {"A", "B", "C"}, FZero), Get(table, {"A", "B"}, FZero))
    /\ Len(rules) > 0

\* C4: with no transaction find_frequent_itemsets returns an empty table
\* whatever the thresholds, without failing, and generate_association_rules
\* on an empty table returns an empty rule sequence.
C4_EmptyInput ==
    /\ (op \in {"find", "rules"} /\ transactions = <<>>)
           => (outcome = "returned" /\ frequent_itemsets = <<>>)
    /\ (op = "rules" /\ table = <<>>) => (outcome = "returned" /\ rules = <<>>)

\* both calls were made on no transaction
C4_Witness ==
    /\ op = "rules"
    /\ transactions = <<>>
    /\ table = <<>>
    /\ rules = <<>>

\* C5: a call with min_support outside (0,1] or max_length < 1, or with
\* min_confidence outside (0,1], ends in InvalidParameter and produces no
\* table and no rules.
C5_InvalidParametersRejected ==
    /\ (op = "find" /\ (~InUnitInterval(min_support) \/ max_length < 1))
           => (outcome = "InvalidParameter" /\ frequent_itemsets = <<>>)
    /\ (op = "rules" /\ ~InUnitInterval(min_confidence))
           => (outcome = "InvalidParameter" /\ rules = <<>>)

(***************************************************************************)
(* Properties of get_recommendations and generate_association_rules        *)
(***************************************************************************)
\* C6: get_recommendations called with top_n <= 0 ends in InvalidParameter
\* and returns no recommendation, never a non-empty list.
C6_NonPositiveTopNRejected ==
    (op = "recs" /\ top_n <= 0) => (outcome = "InvalidParameter" /\ recommendations = <<>>)

\* generate_association_rules has returned its sorted rule list
RulesReturned == op = "rules" /\ outcome = "returned"

\* C7: every returned rule has min_confidence <= confidence <= 1.
C7_ConfidenceBound ==
    RulesReturned =>
        \A i \in 1..Len(rules) :
            /\ FGeq(rules[i].confidence, ToFloat(min_confidence))
            /\ FGeq(FOne, rules[i].confidence)

\* rules were returned under a positive threshold, one of confidence 1 and
\* one below 1
C7_Witness ==
    /\ RulesReturned
    /\ min_confidence.p > 0
    /\ \E i, j \in 1..Len(rules) :
           rules[i].confidence = FOne /\ FLess(rules[j].confidence, FOne)

\* C8: in every returned rule the antecedent and the consequent are non-empty
\* and disjoint, and their union is a key of the table with at least 2 items.
C8_RulePartition ==
    RulesReturned =>
        \A i \in 1..Len(rules) :
            /\ rules[i].antecedent # {}
            /\ rules[i].consequent # {}
            /\ rules[i].antecedent \cap rules[i].consequent = {}
            /\ HasKey(table, rules[i].antecedent \cup rules[i].consequent)
            /\ Cardinality(rules[i].antecedent \cup rules[i].consequent) >= 2

\* rules split from a pair and from a triple, a two-item antecedent and a
\* two-item consequent among them
C8_Witness ==
    /\ RulesReturned
    /\ \E i, j \in 1..Len(rules) :
           /\ Cardinality(rules[i].antecedent) = 2
           /\ Cardinality(rules[j].consequent) = 2
    /\ \E i \in 1..Len(rules) :
           Cardinality(rules[i].antecedent \cup rules[i].consequent) = 2

\* C9: every returned rule has support = the table's support of antecedent
\* \cup consequent, confidence = that support / support(antecedent), and lift =
\* confidence / support(consequent) when support(consequent) > 0; on the
\* five-transaction scenario {A} -> {B} has confidence 3/4 and lift 15/16.
C9_RuleMetrics ==
    RulesReturned =>
        /\ \A i \in 1..Len(rules) :
               /\ rules[i].support =
                      Get(table, rules[i].antecedent \cup rules[i].consequent, FZero)
               /\ rules[i].confidence =
                      FDiv(Get(table, rules[i].antecedent \cup rules[i].consequent, FZero),
                           Get(table, rules[i].antecedent, FOne))
               /\ FGt(Get(table, rules[i].consequent, FZero), FZero)
                      => rules[i].lift =
                             FDiv(rules[i].confidence, Get(table, rules[i].consequent, FOne))
        /\ transactions = Scenario5 =>
               \A i \in 1..Len(rules) :
                   (rules[i].antecedent = {"A"} /\ rules[i].consequent = {"B"})
                       => /\ rules[i].confidence = IntDiv(3, 4)
                          /\ rules[i].lift = IntDiv(15, 16)

\* the place of a rule in the list as generated (no rule is generated twice)
GeneratedAt(x) == CHOOSE i \in 1..Len(generated) : generated[i] = x

\* C10: the returned rules are the generated rules ordered by confidence
\* non-increasing, rules of equal confidence in the order of their generation.
C10_SortedStable ==
    RulesReturned =>
        /\ Len(rules) = Len(generated)
        /\ ToSet(rules) = ToSet(generated)
        /\ \A i, j \in 1..Len(rules) :
               i < j => /\ ~FLess(rules[i].confidence, rules[j].confidence)
                        /\ rules[i].confidence = rules[j].confidence
                               => GeneratedAt(rules[i]) < GeneratedAt(rules[j])

\* the sort moved a rule forward, past two rules of equal confidence that
\* kept their order
C10_Witness ==
    /\ RulesReturned
    /\ rules # generated
    /\ \E i, j \in 1..Len(rules) :
           /\ i < j
           /\ rules[i].confidence = rules[j].confidence
           /\ \E k \in 1..Len(rules) :
                  /\ k > j
                  /\ FLess(rules[k].confidence, rules[j].confidence)
                  /\ GeneratedAt(rules[k]) < GeneratedAt(rules[j])

(***************************************************************************)
(* Properties of get_recommendations                                       *)
(***************************************************************************)
RecsReturned == op = "recs" /\ outcome = "returned"

\* C11: every returned recommendation has a non-empty recommended item set,
\* which is the consequent of a matching rule minus the known items and so
\* shares no item with the known items.
C11_Exclusion ==
    RecsReturned =>
        \A i \in 1..Len(recommendations) :
            /\ recommendations[i].recommended_items # <<>>
            /\ ToSet(recommendations[i].recommended_items) \cap input_items = {}
            /\ \E j \in 1..Len(association_rules) :
                   /\ \/ association_rules[j].antecedent \subseteq input_items
                      \/ input_items \subseteq association_rules[j].antecedent
                   /\ ToSet(recommendations[i].recommended_items) =
                          association_rules[j].consequent \ input_items

\* a recommendation was returned that is only a part of its rule's
\* consequent, the rest of which is known
C11_Witness ==
    /\ RecsReturned
    /\ \E i \in 1..Len(recommendations), j \in 1..Len(association_rules) :
           /\ ToSet(recommendations[i].antecedent) = association_rules[j].antecedent
           /\ association_rules[j].consequent \cap input_items # {}
           /\ ToSet(recommendations[i].recommended_items) =
                  association_rules[j].consequent \ input_items

\* the rules that are to contribute: positions in the rule sequence
Contributing ==
    {j \in 1..Len(association_rules) :
        /\ \/ association_rules[j].antecedent \subseteq input_items
           \/ input_items \subseteq association_rules[j].antecedent
        /\ association_rules[j].consequent \ input_items # {}}

\* C12: a rule contributes a candidate recommendation if and only if
\* (antecedent \subseteq known_items or known_items \subseteq antecedent) and
\* consequent - known_items is non-empty: the candidates are those rules'
\* recommendations, one each, in rule order.
C12_BidirectionalMatch ==
    RecsReturned =>
        /\ Len(candidates) = Cardinality(Contributing)
        /\ \A j \in Contributing :
               LET c == candidates[Cardinality({h \in Contributing : h <= j})]
               IN  /\ ToSet(c.antecedent) = association_rules[j].antecedent
                   /\ ToSet(c.recommended_items) =
                          association_rules[j].consequent \ input_items
                   /\ c.confidence = association_rules[j].confidence
                   /\ c.lift = association_rules[j].lift

\* of two rules that recommend an unknown item, the one whose antecedent
\* strictly holds the known items contributed and the one whose antecedent
\* overlaps them, neither holding the other, did not
C12_Witness ==
    /\ RecsReturned
    /\ Len(candidates) = 1
    /\ \E i, j \in 1..Len(association_rules) :
           /\ input_items \subseteq association_rules[i].antecedent
           /\ input_items # association_rules[i].antecedent
           /\ ToSet(candidates[1].antecedent) = association_rules[i].antecedent
           /\ association_rules[j].antecedent \cap input_items # {}
           /\ ~(association_rules[j].antecedent \subseteq input_items)
           /\ ~(input_items \subseteq association_rules[j].antecedent)
           /\ association_rules[j].consequent \ input_items # {}

\* C13: no two returned recommendations have the same recommended item set,
\* and the one retained for an item set has the maximum confidence among the
\* matching rules that produce that set; known {A}, rules {A} -> {B} at .75
\* and {A,C} -> {B} at .9, top_n = 1: the one recommendation is B at .9.
C13_Dedup ==
    RecsReturned =>
        /\ \A i, j \in 1..Len(recommendations) :
               i # j => ToSet(recommendations[i].recommended_items)
                            # ToSet(recommendations[j].recommended_items)
        /\ \A i \in 1..Len(recommendations) : \A j \in Contributing :
               association_rules[j].consequent \ input_items
                       = ToSet(recommendations[i].recommended_items)
                   => FGeq(recommendations[i].confidence, association_rules[j].confidence)
        /\ ( /\ input_items = {"A"}
             /\ top_n = 1
             /\ ToSet(association_rules) =
                    { Rule({"A"}, {"B"}, Ratio(3, 4), Ratio(15, 16)),
                      Rule({"A", "C"}, {"B"}, Ratio(9, 10), Ratio(9, 8)) } )
               => /\ Len(recommendations) = 1
                  /\ recommendations[1].recommended_items = <<"B">>
                  /\ recommendations[1].confidence = ToFloat(Ratio(9, 10))

\* the example, the rule of lower confidence first: its recommendation was
\* kept for B and then replaced
C13_Witness ==
    /\ RecsReturned
    /\ input_items = {"A"}
    /\ top_n = 1
    /\ Len(candidates) = 2
    /\ candidates[1].confidence = ToFloat(Ratio(3, 4))
    /\ candidates[2].confidence = ToFloat(Ratio(9, 10))
    /\ Len(recommendations) = 1
    /\ recommendations[1] = candidates[2]

\* x ranks strictly above y by (confidence, lift)
Outranks(x, y) ==
    \/ FLess(y.confidence, x.confidence)
    \/ y.confidence = x.confidence /\ FLess(y.lift, x.lift)

\* C14: for top_n > 0 the result has at most top_n entries, is ordered by
\* (confidence, lift) non-increasing, and is the first top_n entries of that
\* ordering of the deduplicated recommendations: nothing left out ranks
\* strictly above a returned one.
C14_RankAndTruncate ==
    (RecsReturned /\ top_n > 0) =>
        /\ Len(recommendations) <= top_n
        /\ Len(recommendations) = (IF Len(unique) < top_n THEN Len(unique) ELSE top_n)
        /\ Cardinality(ToSet(recommendations)) = Len(recommendations)
        /\ \A i \in 1..Len(recommendations) :
               \E u \in 1..Len(unique) : unique[u].v = recommendations[i]
        /\ \A i, j \in 1..Len(recommendations) :
               i < j => ~Outranks(recommendations[j], recommendations[i])
        /\ \A u \in 1..Len(unique) :
               unique[u].v \notin ToSet(recommendations)
                   => \A i \in 1..Len(recommendations) :
                          ~Outranks(unique[u].v, recommendations[i])

\* two recommendations of equal confidence were kept, the second with the
\* higher lift; it was ranked first and top_n = 1 cut the other off
C14_Witness ==
    /\ RecsReturned
    /\ top_n = 1
    /\ Len(unique) = 2
    /\ unique[1].v.confidence = unique[2].v.confidence
    /\ FLess(unique[1].v.lift, unique[2].v.lift)
    /\ recommendations = <<unique[2].v>>

\* a sequence as a multiset: each element with the number of its occurrences
Multiset(seq) == [x \in ToSet(seq) |-> Cardinality({i \in 1..Len(seq) : seq[i] = x})]

\* the table a run on a newly constructed instance returns
FreshTable(tx, ms, ml, perm) == FindFrequentItemsets(tx, ToFloat(ms), ml, perm)

\* the rules generate_association_rules returns for that table
FreshRules(tx, ms, ml, mc, perm) ==
    SortRules(GenerateRules(FreshTable(tx, ms, ml, perm), FreshTable(tx, ms, ml, perm),
                            tx, ToFloat(mc), perm).rules)

\* C15: whatever was called before on the shared instance, a run returns the
\* set of (itemset, support) pairs and the multiset of rules that a run with
\* the same transactions and parameters returns on a new instance, under
\* every iteration order.
C15_HistoryIndependent ==
    /\ (op = "find" /\ outcome = "returned") =>
           \A perm \in HashOrders :
               ToSet(frequent_itemsets) =
                   ToSet(FreshTable(transactions, min_support, max_length, perm))
    /\ RulesReturned =>
           \A perm \in HashOrders :
               Multiset(rules) =
                   Multiset(FreshRules(transactions, min_support, max_length,
                                       min_confidence, perm))

\* rules were returned by the second run on the instance, and the first run
\* had returned an itemset the second run's table does not hold
C15_Witness ==
    /\ RulesReturned
    /\ calls = 2
    /\ rules # <<>>
    /\ Len(returned) = 2
    /\ KeySet(returned[1]) \ KeySet(frequent_itemsets) # {}

\* C16: after a run the fields frequent_itemsets and item_support hold only
\* what that run computed: the table is the one a new instance returns, and
\* item_support has exactly the frequent items of the run as keys, each with
\* the support the table holds for it.
C16_OnlyLatestRun ==
    (op = "find" /\ outcome = "returned") =>
        /\ ToSet(frequent_itemsets) =
               ToSet(FreshTable(transactions, min_support, max_length, hash_order))
        /\ KeySet(item_support) = {i \in Items : HasKey(frequent_itemsets, {i})}
        /\ \A i \in KeySet(item_support) :
               Get(item_support, i, FZero) = Get(frequent_itemsets, {i}, FZero)

Occurring(tx) == UNION {tx[i] : i \in 1..Len(tx)}

\* C18: _create_tid_lists has one key for each item that occurs in some
\* transaction and no other key; the list of an item holds exactly the
\* (0-based) indices of the transactions containing it, strictly ascending;
\* the empty list of transactions gives the empty mapping.
C18_TidLists ==
    op = "tids" =>
        /\ KeySet(tid_lists) = Occurring(tid_input)
        /\ Len(tid_lists) = Cardinality(KeySet(tid_lists))
        /\ \A n \in 1..Len(tid_lists) :
               /\ ToSet(tid_lists[n].v) =
                      {i - 1 : i \in {j \in 1..Len(tid_input) : tid_lists[n].k \in tid_input[j]}}
               /\ \A a, b \in 1..Len(tid_lists[n].v) :
                      a < b => tid_lists[n].v[a] < tid_lists[n].v[b]
        /\ tid_input = <<>> => tid_lists = <<>>

\* three transactions, the middle one empty: A is in the first and the last,
\* C is in none
C18_Witness ==
    /\ op = "tids"
    /\ Len(tid_input) = 3
    /\ tid_input[2] = {}
    /\ Get(tid_lists, "A", <<>>) = <<0, 2>>
    /\ ~HasKey(tid_lists, "C")

\* the pairs of positions of a frontier whose itemsets have the union u
PairsGiving(u) ==
    {<<i, j>> \in (1..Len(frontier)) \X (1..Len(frontier)) :
        i < j /\ frontier[i] \cup frontier[j] = u}

\* C19: _generate_candidates returns each set of exactly k items that is the
\* union of two different frontier itemsets, once, and nothing else.
C19_Candidates ==
    op = "candidates" =>
        /\ ToSet(new_candidates) =
               {u \in {x \cup y : x \in ToSet(frontier), y \in ToSet(frontier)} :
                   /\ Cardinality(u) = level
                   /\ \E x \in ToSet(frontier) : \E y \in ToSet(frontier) \ {x} : x \cup y = u}
        /\ Len(new_candidates) = Cardinality(ToSet(new_candidates))

\* a frontier of four 2-itemsets at level 3: one candidate is the union of
\* more than one pair, another pair's union has four items and is left out
C19_Witness ==
    /\ op = "candidates"
    /\ level = 3
    /\ Len(frontier) = 4
    /\ Len(new_candidates) >= 2
    /\ \E n \in 1..Len(new_candidates) : Cardinality(PairsGiving(new_candidates[n])) >= 2
    /\ PairsGiving(RecItems) # {}

\* the itemsets of size c a table holds
OfSize(d, c) == {x \in KeySet(d) : Cardinality(x) = c}

\* the levels are 2, 3, ... in this order; level 2 joins the frequent
\* 1-itemsets and each later level the frequent itemsets of the level before
\* it; every level but the last one has candidates and frequent itemsets, and
\* the last one has no candidate, or no frequent itemset, or is max_length;
\* the table holds what the levels found
LevelsInOrder ==
    /\ \A i \in 1..Len(levels) :
           /\ levels[i].k = i + 1
           /\ ToSet(levels[i].current_itemsets) =
                  IF i = 1 THEN OfSize(frequent_itemsets, 1)
                  ELSE KeySet(levels[i - 1].frequent_k_itemsets)
           /\ KeySet(levels[i].frequent_k_itemsets) = OfSize(frequent_itemsets, i + 1)
           /\ i < Len(levels) =>
                  levels[i].next_itemsets # <<>> /\ levels[i].frequent_k_itemsets # <<>>
           /\ i = Len(levels) =>
                  \/ levels[i].next_itemsets = <<>>
                  \/ levels[i].frequent_k_itemsets = <<>>
                  \/ levels[i].k = max_length
    /\ levels = <<>> => max_length < 2
    /\ \A x \in KeySet(frequent_itemsets) : Cardinality(x) <= Len(levels) + 1

Max(a, b) == IF a >= b THEN a ELSE b

\* C20: a run goes through the levels 2, 3, ... in order, each from the
\* frequent itemsets of the level before, stops at the first level without a
\* candidate or without a frequent itemset or after level max_length, and
\* returns after at most max(0, max_length - 1) iterations of the level loop.
C20_LevelsAndTermination ==
    FindReturned => /\ LevelsInOrder
                    /\ Len(levels) <= Max(0, max_length - 1)

\* C20 as stated: the same with at most max_length - 1 iterations, for every
\* parameter value.
C20_AtMostMaxLengthMinusOne ==
    FindReturned => /\ LevelsInOrder
                    /\ Len(levels) <= max_length - 1

\* a run with max_length = 3 went through levels 2 and 3 and both found
\* frequent itemsets
C20_Witness ==
    /\ FindReturned
    /\ max_length = 3
    /\ Len(levels) = 2
    /\ levels[1].frequent_k_itemsets # <<>>
    /\ levels[2].frequent_k_itemsets # <<>>

\* rule A -> I - A is among the returned rules
Emitted(A, I) ==
    \E i \in 1..Len(rules) : rules[i].antecedent = A /\ rules[i].consequent = I \ A

\* C21: for every itemset I of at least 2 items in the table and every
\* non-empty proper subset A of I with a tracked, non-zero support, the rule
\* A -> I - A is returned exactly when support(I) / support(A) >= min_confidence,
\* a confidence equal to min_confidence included (supports as the ratios
\* count / N, the comparison exact).
C21_RuleCompleteness ==
    RulesReturned =>
        \A I \in {x \in KeySet(table) : Cardinality(x) >= 2} :
            \A A \in (SUBSET I) \ {{}, I} :
                (HasKey(table, A) /\ Get(table, A, FZero).s # 0) =>
                    (Emitted(A, I) <=>
                        ContainingCount(I, transactions) * min_confidence.q
                            >= ContainingCount(A, transactions) * min_confidence.p)

\* the splits of the table's itemsets: an itemset of at least 2 items and a
\* non-empty proper subset of it
Splits ==
    {<<I, A>> \in KeySet(table) \X (SUBSET Items) :
        Cardinality(I) >= 2 /\ A # {} /\ A \subseteq I /\ A # I}

\* the antecedent of a split has no usable support: no key, or a stored 0
Untracked(A) == Get(table, A, FZero).s = 0

\* C22: a split whose antecedent is not a key of the table (or has a stored
\* support of 0) gives no rule and no error, and the other splits are still
\* processed: each one whose confidence reaches min_confidence is returned.
C22_MissingAntecedentSkipped ==
    op = "rules" =>
        /\ Len(transactions) > 0 => outcome = "returned"
        /\ RulesReturned =>
               \A sp \in Splits :
                   IF Untracked(sp[2]) THEN ~Emitted(sp[2], sp[1])
                   ELSE MeetsMinConfidence(FDiv(Get(table, sp[1], FZero),
                                                Get(table, sp[2], FOne)),
                                           ToFloat(min_confidence))
                            => Emitted(sp[2], sp[1])

\* rules were returned from a table in which {A,B,C} has splits whose
\* antecedent is no key, next to splits that gave a rule, and a pair before
\* it gave a rule too
C22_Witness ==
    /\ RulesReturned
    /\ Len(transactions) > 0
    /\ \E sp \in Splits : sp[1] = {"A", "B", "C"} /\ ~HasKey(table, sp[2])
    /\ \E sp \in Splits : sp[1] = {"A", "B", "C"} /\ Emitted(sp[2], sp[1])
    /\ \E sp \in Splits : sp[1] = {"A", "B"} /\ Emitted(sp[2], sp[1])
    /\ \E sp \in Splits : HasKey(table, sp[2]) /\ Untracked(sp[2])

\* the consequent support the call uses for a rule: the tracked one, or the
\* direct count over the transactions when there is none
ScannedSupport(consequent) ==
    IntDiv(ContainingCount(consequent, transactions), Len(transactions))

\* C23: for a returned rule whose consequent is not a key of the table, the
\* lift is the confidence divided by (transactions containing every item of
\* the consequent) / N, and 0 when no transaction contains it; that support is
\* the value the table of a run over the same transactions holds for it.
C23_ConsequentFallback ==
    RulesReturned =>
        \A i \in 1..Len(rules) :
            ~HasKey(table, rules[i].consequent) =>
                /\ rules[i].lift =
                       IF ContainingCount(rules[i].consequent, transactions) = 0 THEN FZero
                       ELSE FDiv(rules[i].confidence, ScannedSupport(rules[i].consequent))
                /\ \A perm \in HashOrders :
                       HasKey(FreshTable(transactions, Ratio(0, 1), 3, perm),
                              rules[i].consequent)
                           => Get(FreshTable(transactions, Ratio(0, 1), 3, perm),
                                  rules[i].consequent, FZero)
                                  = ScannedSupport(rules[i].consequent)

\* a rule was returned whose consequent has two items and no key, and some
\* but not all transactions contain both items
C23_Witness ==
    /\ RulesReturned
    /\ \E i \in 1..Len(rules) :
           /\ ~HasKey(table, rules[i].consequent)
           /\ Cardinality(rules[i].consequent) = 2
           /\ ContainingCount(rules[i].consequent, transactions) > 0
           /\ ContainingCount(rules[i].consequent, transactions) < Len(transactions)
           /\ rules[i].lift # FZero

\* the consequent support of a returned rule is not greater than 0
NoConsequentSupport(rule) ==
    /\ Get(table, rule.consequent, FZero).s = 0
    /\ ContainingCount(rule.consequent, transactions) = 0

\* C24: for any table and any transaction list, the empty one included, the
\* call returns; a rule whose consequent support is not greater than 0 is
\* returned with lift 0.
C24_DegenerateLift ==
    op = "rules" =>
        /\ outcome = "returned"
        /\ \A i \in 1..Len(rules) : NoConsequentSupport(rules[i]) => rules[i].lift = FZero

\* the (0-based) indices of the empty transactions
EmptyTids == {i - 1 : i \in {j \in 1..Len(transactions) : transactions[j] = {}}}

\* the (0-based) indices of the transactions holding an item
TidsOf(item) == {i - 1 : i \in {j \in 1..Len(transactions) : item \in transactions[j]}}

\* C25: for a non-empty transaction list with empty transactions in it the
\* calls return without error; the tid-lists hold the indices of the
\* transactions containing the item, none of an empty transaction; every
\* stored support is (containing transactions) / N with N the length of the
\* list, empty transactions counted; and where a rule's tracked consequent
\* support is 0 the scan gives that same ratio for the lift.
C25_EmptyTransactions ==
    (op \in {"find", "rules"} /\ Len(transactions) > 0 /\ EmptyTids # {}) =>
        /\ outcome = "returned"
        /\ \A n \in 1..Len(CreateTidLists(transactions, hash_order)) :
               /\ ToSet(CreateTidLists(transactions, hash_order)[n].v) \cap EmptyTids = {}
               /\ ToSet(CreateTidLists(transactions, hash_order)[n].v)
                      = TidsOf(CreateTidLists(transactions, hash_order)[n].k)
        /\ \A i \in 1..Len(frequent_itemsets) :
               frequent_itemsets[i].v =
                   IntDiv(ContainingCount(frequent_itemsets[i].k, transactions),
                          Len(transactions))
        /\ op = "rules" =>
               \A i \in 1..Len(rules) :
                   Get(table, rules[i].consequent, FZero).s = 0 =>
                       rules[i].lift =
                           IF ContainingCount(rules[i].consequent, transactions) = 0
                           THEN FZero
                           ELSE FDiv(rules[i].confidence, ScannedSupport(rules[i].consequent))

\* rules were returned for a list whose second transaction is empty: A has
\* support 1/3 and an index after the empty transaction, and one rule's
\* consequent has a tracked support of 0, so the scan was made
C25_Witness ==
    /\ RulesReturned
    /\ Len(transactions) = 3
    /\ transactions[2] = {}
    /\ TidsOf("A") = {2}
    /\ Get(frequent_itemsets, {"A"}, FZero) = IntDiv(1, 3)
    /\ \E i \in 1..Len(rules) : Get(table, rules[i].consequent, FZero).s = 0

\* the returned rules split from itemset I
RulesOf(I) == {i \in 1..Len(rules) : rules[i].antecedent \cup rules[i].consequent = I}

\* C26: no (antecedent, consequent) pair occurs twice among the returned
\* rules, and an itemset of n items gives at most 2^n - 2 of them.
C26_NoDuplicateRules ==
    RulesReturned =>
        /\ \A i, j \in 1..Len(rules) :
               (rules[i].antecedent = rules[j].antecedent
                   /\ rules[i].consequent = rules[j].consequent) => i = j
        /\ \A I \in KeySet(table) :
               Cardinality(RulesOf(I)) <= 2^Cardinality(I) - 2

\* all six rules of the three-item itemset were returned
C26_Witness ==
    /\ RulesReturned
    /\ Cardinality(RulesOf({"A", "B", "C"})) = 6
    /\ Cardinality(RulesOf({"A", "B"})) = 2

\* C27: when the table comes from find_frequent_itemsets with min_support > 0
\* on the same non-empty transaction list, the consequent of every returned
\* rule is a key of the table with a positive support (no scan is made), and
\* its lift is positive.
C27_ConsequentTracked ==
    (RulesReturned /\ min_support.p > 0 /\ Len(transactions) > 0) =>
        \A i \in 1..Len(rules) :
            /\ HasKey(table, rules[i].consequent)
            /\ FGt(Get(table, rules[i].consequent, FZero), FZero)
            /\ FGt(rules[i].lift, FZero)

\* rules were returned under a positive support threshold, one of them with a
\* consequent of two items
C27_Witness ==
    /\ RulesReturned
    /\ min_support.p > 0
    /\ Len(transactions) > 0
    /\ \E i \in 1..Len(rules) : Cardinality(rules[i].consequent) = 2

\* the candidates that recommend the item set S: positions in rule order
Recommending(S) == {j \in 1..Len(candidates) : ToSet(candidates[j].recommended_items) = S}

\* the first of them among those of the greatest confidence
FirstBest(S) ==
    CHOOSE j \in Recommending(S) :
        /\ \A h \in Recommending(S) : ~FLess(candidates[j].confidence, candidates[h].confidence)
        /\ \A h \in Recommending(S) :
               candidates[h].confidence = candidates[j].confidence => j <= h

\* C28: of the matching rules that recommend the same item set, the one kept
\* is the first in rule order among those of the greatest confidence, whatever
\* the lift of the later ones; it is the one returned for that item set.
C28_TieKeepsFirst ==
    RecsReturned =>
        /\ \A n \in 1..Len(unique) : unique[n].v = candidates[FirstBest(unique[n].k)]
        /\ \A i \in 1..Len(recommendations) :
               recommendations[i] =
                   candidates[FirstBest(ToSet(recommendations[i].recommended_items))]

\* two rules of equal confidence recommended the same item, the later one
\* with the higher lift, and the earlier one was returned
C28_Witness ==
    /\ RecsReturned
    /\ Len(candidates) = 2
    /\ candidates[1].recommended_items = candidates[2].recommended_items
    /\ candidates[1].confidence = candidates[2].confidence
    /\ FLess(candidates[1].lift, candidates[2].lift)
    /\ recommendations = <<candidates[1]>>

(***************************************************************************)
(* Properties of the application session                                   *)
(***************************************************************************)
\* a table with the rules generate_association_rules returns for it
ResultsOfTable(tb, tx, confidence, perm) ==
    <<tb, SortRules(GenerateRules(tb, tb, tx, confidence, perm).rules)>>

\* the element of a set of one element
Only(S) == CHOOSE x \in S : TRUE

\* the table a run on a new instance returns, with its rules
ResultsWith(tx, support, ml, confidence, perm) ==
    Only({ResultsOfTable(tb, tx, confidence, perm) :
              tb \in {FindFrequentItemsets(tx, support, ml, perm)}})

ResultsOn(tx, ms, ml, mc, perm) ==
    Only({ResultsWith(tx, support, ml, confidence, perm) :
              support \in {ToFloat(ms)}, confidence \in {ToFloat(mc)}})

\* the table and the rules that a run on a new instance computes from the
\* data set and the parameters of the record run
ResultsOfRun(run, perm) ==
    Only({ResultsOn(tx, run.min_support, run.max_length, run.min_confidence, perm) :
              tx \in {CreateTransactionMatrix(<<run.data>>)}})

\* the two session values that hold the results res
BothSet(res) == <<<<res[1]>>, <<res[2]>>>>

\* C29: eclat_results and association_rules are both None or both set; an
\* analysis run that returns sets them to the table and the rules computed
\* from processed_data and the parameters of that run, and every other step,
\* a run that raises in either call included, leaves both as they were.
C29_StoredTogether ==
    [][/\ (session_eclat_results' = <<>>) <=> (session_association_rules' = <<>>)
       /\ IF runs' # runs /\ outcome' = "returned"
          THEN <<session_eclat_results', session_association_rules'>> =
                   BothSet(ResultsOfRun([data |-> session_processed_data[1],
                                         min_support |-> min_support',
                                         max_length |-> max_length',
                                         min_confidence |-> min_confidence'],
                                        hash_order))
          ELSE /\ session_eclat_results' = session_eclat_results
               /\ session_association_rules' = session_association_rules]_vars

\* the second run, on another data set than the first, raised inside
\* generate_association_rules: the instance holds the new table, the session
\* the results of the first run
C29_Witness ==
    /\ op = "analysis"
    /\ outcome = "raised"
    /\ runs = 2
    /\ analysed # <<>>
    /\ session_eclat_results # <<>>
    /\ frequent_itemsets # session_eclat_results[1]
    /\ analysed[1].data # session_processed_data[1]

\* the page rendered works on results of another data set than processed_data
Stale(run, processed) == run # <<>> /\ processed # <<>> /\ run[1].data # processed[1]

\* C30: "Validasi dan Simpan Data" leaves eclat_results and association_rules
\* (and the analysis instance) as they were, and while processed_data holds
\* another data set than the last run that stored its results, the results
\* page and the recommendations page work on the table and rules of that run.
C30_SaveKeepsResults ==
    [][/\ op' = "save" =>
              /\ session_eclat_results' = session_eclat_results
              /\ session_association_rules' = session_association_rules
              /\ analysed' = analysed
              /\ instanceVars' = instanceVars
       /\ (op' = "view" /\ Stale(analysed', session_processed_data')) =>
              shown' = ResultsOfRun(analysed'[1], hash_order)
       /\ (op' = "recs" /\ Stale(analysed', session_processed_data')) =>
              /\ association_rules' = ResultsOfRun(analysed'[1], hash_order)[2]
              /\ recommendations' =
                     GetRecommendations(input_items', association_rules', InstanceTopN,
                                        hash_order)]_vars

\* recommendations made from the rules of one data set while processed_data
\* holds another one, saved after the analysis
C30_Witness ==
    /\ op = "recs"
    /\ analysed # <<>>
    /\ analysed[1].data # session_processed_data[1]
    /\ recommendations # <<>>
    /\ association_rules = session_association_rules[1]
    /\ association_rules #
           ResultsOfRun([analysed[1] EXCEPT !.data = session_processed_data[1]],
                        hash_order)[2]

=============================================================================
